---- MODULE Spec2Model ----
(***************************************************************************)
(* Model of the Gris client (src/unnamed/part_000): the signed transport   *)
(* loop of Gris.postRequest, the envelope builder Gris.APIRequest /        *)
(* Gris.APIMultiRequest and the key exchange Gris.doAuth.                   *)
(*                                                                         *)
(* JavaScript runs the code between two awaits without interruption, so    *)
(* each action below is one such run: it starts where a caller invokes an  *)
(* operation or where an await resumes (request.post settles, a sleep      *)
(* timer fires) and ends at the next await or at the return/throw of the   *)
(* logical call.                                                           *)
(***************************************************************************)
EXTENDS Integers, Sequences, FiniteSets, TLC

VARIABLES session, keychain, platformType, call, wire, issued, options, probe

vars == <<session, keychain, platformType, call, wire, issued, options, probe>>

(***************************************************************************)
(* Bounds of the model.                                                    *)
(***************************************************************************)
\* number of logical operations issued over the life of the client instance
MaxCalls == 2

\* the same, in the specification with fairness (termination is checked there)
MaxFairCalls == 1

\* longest byte sequence given to xor
MaxXorLen == 2

\* call slots; the sequential specification uses slot 1 only
Slots == {1, 2}

(***************************************************************************)
(* Small helpers.                                                          *)
(***************************************************************************)
Max(a, b) == IF a > b THEN a ELSE b

Put(f, k, v) == [x \in (DOMAIN f) \cup {k} |-> IF x = k THEN v ELSE f[x]]

(***************************************************************************)
(* Enumerations and defaults.                                              *)
(***************************************************************************)
iOS == 1

Android == 2

MUSE == 1

AQOURS == 2

defaultPlatform == iOS

defaultClientVersion == "41.4"

defaultBundleVersion == "6.9.1"

\* values a server-version header can take; NoHeader is an absent header
Versions == {"41.4", "41.5"}

NoHeader == ""

defaultCommandNum == 2

(***************************************************************************)
(* util/crypto.ts: xor.  Bytes are 0..255, a Buffer is a sequence of bytes. *)
(***************************************************************************)
RECURSIVE BitXor(_, _)
BitXor(x, y) ==
  IF x = 0 /\ y = 0 THEN 0
  ELSE (((x % 2) + (y % 2)) % 2) + (2 * BitXor(x \div 2, y \div 2))

xorShort(a, b) ==
  LET minLength == IF Len(a) > Len(b) THEN Len(b) ELSE Len(a)
  IN  [i \in 1..(minLength - 1) |-> BitXor(a[i], b[i])]

xor(a, b) ==
  LET minLength == IF Len(a) > Len(b) THEN Len(b) ELSE Len(a)
  IN  [i \in 1..minLength |-> BitXor(a[i], b[i])]

\* Buffer.slice(0, 16) and Buffer.slice(16, 32) of a 32-byte key: its halves
FirstHalf(k) == SubSeq(k, 1, Len(k) \div 2)

SecondHalf(k) == SubSeq(k, Len(k) \div 2 + 1, Len(k))

\* keys of the model are 2 bytes long (the program's are 32)
ApplicationKey == <<165, 60>>

BaseKey == <<15, 255>>

InitialSessionKey == <<0, 0>>

ClientKeys == {<<1, 2>>, <<200, 7>>}

\* Buffer.from(dummy_token, "base64") for the tokens the model's server issues
Base64Decode(t) == IF t = "AQM=" THEN <<1, 3>> ELSE <<255, 128>>

(***************************************************************************)
(* Credentials.  A string is the sequence of its characters.               *)
(***************************************************************************)
Digits == {"0", "1", "2", "3", "4", "5", "6", "7", "8", "9"}

UpperLetters ==
  { "A", "B", "C", "D", "E", "F", "G", "H", "I", "J", "K", "L", "M",
    "N", "O", "P", "Q", "R", "S", "T", "U", "V", "W", "X", "Y", "Z" }

\* the upper-case form of the letters the model's inputs use
ToUpper(ch) ==
  CASE ch = "a" -> "A" [] ch = "b" -> "B" [] ch = "c" -> "C" [] ch = "d" -> "D"
    [] ch = "e" -> "E" [] ch = "f" -> "F" [] ch = "g" -> "G" [] ch = "x" -> "X"
    [] ch = "z" -> "Z" [] OTHER -> ch

\* the characters a regular-expression atom matches
AtomChars(atom) ==
  CASE atom = "[0-9A-F]" -> Digits \cup {"A", "B", "C", "D", "E", "F"}
    [] atom = "[0-9A-Z]" -> Digits \cup UpperLetters
    [] atom = "[89AB]" -> {"8", "9", "A", "B"}
    [] OTHER -> {atom}

\* atom{n}
Rep(atom, n) == [i \in 1..n |-> atom]

\* flag i: a character matches an atom if its upper-case form does
AtomMatchesI(atom, ch) == ToUpper(ch) \in AtomChars(atom)

\* /^atoms$/i: the whole string is matched, atom by atom
MatchWholeI(str, atoms) ==
  /\ Len(str) = Len(atoms)
  /\ \A i \in 1..Len(atoms) : AtomMatchesI(atoms[i], str[i])

\* /^atoms/i: a prefix of the string is matched
MatchPrefixI(str, atoms) ==
  /\ Len(str) >= Len(atoms)
  /\ \A i \in 1..Len(atoms) : AtomMatchesI(atoms[i], str[i])

\* /^[0-9A-F]{8}-[0-9A-F]{4}-4[0-9A-F]{3}-[89AB][0-9A-F]{3}-[0-9A-F]{12}$/gi
loginKeyRegex ==
  Rep("[0-9A-F]", 8) \o <<"-">> \o Rep("[0-9A-F]", 4) \o <<"-">>
    \o <<"4">> \o Rep("[0-9A-F]", 3) \o <<"-">>
    \o <<"[89AB]">> \o Rep("[0-9A-F]", 3) \o <<"-">> \o Rep("[0-9A-F]", 12)

\* /^[0-9A-Z]{128}/gi
loginPasswdRegex == Rep("[0-9A-Z]", 128)

loginKeyLength == 36

loginPasswdLength == 128

loginKeyAcceptedAnyVersion(str) ==
  /\ Len(str) = loginKeyLength
  /\ MatchWholeI(str, [loginKeyRegex EXCEPT ![15] = "[0-9A-F]"])

\* lines 133-134 and 315-316
loginKeyAccepted(str) ==
  Len(str) = loginKeyLength /\ MatchWholeI(str, loginKeyRegex)

\* lines 138 and 319-320
loginPasswdAccepted(str) ==
  Len(str) = loginPasswdLength /\ MatchPrefixI(str, loginPasswdRegex)

EmptyString == <<>>

\* a login key and a login passwd of the shape generateCredentials produces
SampleLoginKey ==
  <<"3", "f", "a", "8", "5", "f", "6", "4", "-", "5", "7", "1", "7", "-", "4", "5", "6", "2">>
    \o <<"-", "b", "3", "f", "c", "-", "2", "c", "9", "6", "3", "f", "6", "6", "a", "f", "a", "6">>

HexDigits ==
  <<"0", "1", "2", "3", "4", "5", "6", "7", "8", "9", "a", "b", "c", "d", "e", "f">>

SampleLoginPasswd == [i \in 1..128 |-> HexDigits[((i * 7) % 16) + 1]]

\* str with its i-th character replaced by ch
Replace(str, i, ch) == [str EXCEPT ![i] = ch]

(***************************************************************************)
(* Endpoints: "module/action" is the sequence of its parts.                *)
(***************************************************************************)
AuthKeyEndPoint == <<"login", "authkey">>

ApiEndPoint == <<"api">>

\* words of the model's endpoint vocabulary that contain the text "login"
ContainsLogin(word) == word \in {"login"}

\* endPoint.includes("login")
IncludesLogin(endPoint) == \E i \in DOMAIN endPoint : ContainsLogin(endPoint[i])

(***************************************************************************)
(* Envelope fields.  A value is [kind, num]: what was put there and, for a *)
(* command token or a mode, the number it was built from.                  *)
(***************************************************************************)
CallerValue == [kind |-> "caller", num |-> 0]

TimeStampValue == [kind |-> "timeStamp", num |-> 0]

MgdValue(s) == [kind |-> "mgd", num |-> s.mgd]

CommandToken(s) == [kind |-> "loginKey.timeStamp.commandNum", num |-> s.commandNum]

WordValue(w) == [kind |-> w, num |-> 0]

EmptyData == [x \in {} |-> CallerValue]

\* the calls a caller makes through APIRequest: endpoint, request data, options
Requests ==
  { [ endPoint |-> <<"user", "userInfo">>, requestData |-> EmptyData,
      excludeDefaultValues |-> FALSE, useSpecialKey |-> FALSE ],
    [ endPoint |-> <<"user", "userInfo">>,
      requestData |-> [x \in {"timeStamp", "mgd", "name"} |-> CallerValue],
      excludeDefaultValues |-> TRUE, useSpecialKey |-> FALSE ],
    [ endPoint |-> <<"login", "unitList">>,
      requestData |-> [x \in {"commandNum"} |-> CallerValue],
      excludeDefaultValues |-> TRUE, useSpecialKey |-> TRUE ] }

\* the handshake payload built by doAuth
authKeyRequestData == [x \in {"auth_data", "dummy_token"} |-> CallerValue]

\* the record lists a caller passes to APIMultiRequest
MethodLists ==
  { << [module |-> WordValue("unit"), action |-> WordValue("unitAll")] >>,
    << [module |-> WordValue("live"), action |-> WordValue("schedule")],
       [module |-> WordValue("login"), action |-> WordValue("topInfo")] >> }

(***************************************************************************)
(* Server responses and transport errors.                                  *)
(***************************************************************************)
\* response_data: absent, present but falsy (0, "", false), or an object
Bodies ==
  { [response_data |-> "absent", error_code |-> 0, authorize_token |-> "", dummy_token |-> "", user_id |-> 0],
    [response_data |-> "falsy", error_code |-> 0, authorize_token |-> "", dummy_token |-> "", user_id |-> 0],
    [response_data |-> "object", error_code |-> 407, authorize_token |-> "", dummy_token |-> "", user_id |-> 0],
    [response_data |-> "object", error_code |-> 0, authorize_token |-> "tokA", dummy_token |-> "AQM=", user_id |-> 7] }

\* a response under maintenance carries an ordinary or a 407 body
Responses ==
  [maintenance : {FALSE}, serverVersion : Versions \cup {NoHeader}, body : Bodies]
    \cup [maintenance : {TRUE}, serverVersion : Versions \cup {NoHeader},
          body : {b \in Bodies : b.response_data = "object"}]

\* err.status of a rejected request.post; 0 stands for an error without status
ErrStatuses == {0, 423, 500}

\* no rejection is being handled
NoStatus == -1

(***************************************************************************)
(* State after construction (field initialisers and the constructor).      *)
(***************************************************************************)
IdleCall ==
  [ pc |-> "idle", op |-> "none", endPoint |-> <<>>, signKey |-> <<>>,
    formData |-> EmptyData, headers |-> [ClientVersion |-> ""],
    attempt |-> 0, response |-> <<>>, clientKey |-> <<>>,
    \* err.status of the rejection the catch block is handling
    errStatus |-> NoStatus,
    \* history of the logical call: non-423 transport failures, version-skew
    \* responses, physical sends, outcome, returned body, state at its start
    failures |-> 0, skews |-> 0, sends |-> 0, result |-> "none", ret |-> <<>>,
    \* the arguments the caller passed to APIRequest / APIMultiRequest
    given |-> <<>>,
    \* the rest of the enclosing operation (login, startApp, register)
    todo |-> <<>>,
    pre |-> [nonce |-> 0, commandNum |-> 0, clientVersion |-> "",
             authToken |-> "", sessionKey |-> <<>>] ]

\* nothing has been given to xor
NoProbe == [stage |-> "none", a |-> <<>>, b |-> <<>>, out |-> <<>>, back |-> <<>>]

\* the credentials part of an IConfig without loginKey and loginPasswd
NoCredentials == [loginKey |-> EmptyString, loginPasswd |-> EmptyString]

\* new Gris(opts) on platform: field initialisers, then lines 132-171
NewGris(opts, platform) ==
  /\ options = opts
  /\ session = [ authToken |-> "", userId |-> 0, nonce |-> 0,
                 commandNum |-> defaultCommandNum, mgd |-> AQOURS,
                 bundleVersion |-> defaultBundleVersion,
                 clientVersion |-> defaultClientVersion ]
  /\ keychain = [ applicationKey |-> ApplicationKey, baseKey |-> BaseKey,
                  loginKey |-> IF loginKeyAccepted(opts.loginKey)
                               THEN opts.loginKey ELSE EmptyString,
                  loginPasswd |-> IF loginPasswdAccepted(opts.loginPasswd)
                                  THEN opts.loginPasswd ELSE EmptyString,
                  sessionKey |-> InitialSessionKey ]
  /\ platformType = platform
  /\ call = [p \in Slots |-> IdleCall]
  /\ wire = [last |-> <<>>, prevMax |-> 0]
  /\ issued = 0

\* a client, and xor not applied to anything
Construct(opts, platform) == NewGris(opts, platform) /\ probe = NoProbe

\* a client made without credentials on the default platform
Init == Construct(NoCredentials, defaultPlatform)

(***************************************************************************)
(* Gris.APIRequest, lines 354-372: signing key and envelope.               *)
(***************************************************************************)
specialKey(kc) ==
  xor(FirstHalf(kc.applicationKey), SecondHalf(kc.baseKey))
    \o xor(SecondHalf(kc.applicationKey), FirstHalf(kc.baseKey))

selectSignKey(kc, useSpecialKey) ==
  IF useSpecialKey THEN specialKey(kc) ELSE kc.sessionKey

restampNothing(requestData, s) == requestData

\* lines 362-364
restamp(requestData, s) ==
  LET r1 == IF "timeStamp" \in DOMAIN requestData
            THEN Put(requestData, "timeStamp", TimeStampValue) ELSE requestData
      r2 == IF "mgd" \in DOMAIN r1 THEN Put(r1, "mgd", MgdValue(s)) ELSE r1
  IN  IF "commandNum" \in DOMAIN r2 THEN Put(r2, "commandNum", CommandToken(s)) ELSE r2

injectDefaults(endPoint, requestData, s) ==
  Put(Put(Put(Put(Put(requestData,
    "module", WordValue(endPoint[1])),
    "action", WordValue(endPoint[2])),
    "timeStamp", TimeStampValue),
    "mgd", MgdValue(s)),
    "commandNum", CommandToken(s))

buildEnvelope(endPoint, requestData, excludeDefaultValues, s) ==
  IF excludeDefaultValues THEN restamp(requestData, s)
  ELSE injectDefaults(endPoint, restamp(requestData, s), s)

\* requestData?.commandNum is truthy: a stamped command token is a non-empty string
carriesCommandToken(formData) == "commandNum" \in DOMAIN formData

commandNumAlways(formData, commandNum) == commandNum + 1

\* line 375
commandNumAfter(formData, commandNum) ==
  IF carriesCommandToken(formData) THEN commandNum + 1 ELSE commandNum

stampMethodsWithMgd(methods) ==
  [i \in DOMAIN methods |->
     Put(Put(methods[i], "timeStamp", TimeStampValue), "mgd", CallerValue)]

\* Gris.APIMultiRequest, lines 385-388
stampMethods(methods) ==
  [i \in DOMAIN methods |-> Put(methods[i], "timeStamp", TimeStampValue)]

(***************************************************************************)
(* Gris.getHeaders / Gris.getAuthorizeString.                              *)
(***************************************************************************)
getHeaders(s) == [ClientVersion |-> s.clientVersion]

\* token is left out of the header while authToken is empty
getAuthorizeString(s) == [nonce |-> s.nonce, token |-> s.authToken]

(***************************************************************************)
(* Gris.postRequest: the attempt loop, lines 497-532.                      *)
(***************************************************************************)
BumpNonceStuck(n) == n

BumpNonceWrapping(n) == (n + 1) % 2

BumpNonceTwice(n) == n + 2

\* line 499
BumpNonce(n) == n + 1

LoopContinuesOneMore(attempt) == attempt <= 6

\* line 497, the loop condition
LoopContinues(attempt) == attempt <= 5

IsLockedNever(status) == FALSE

\* line 508
IsLocked(status) == status = 423

\* line 509
IsLastAttempt(attempt) == attempt = 5

VersionSkewAnyCall(resp, clientVersion, endPoint) ==
  /\ resp.serverVersion # NoHeader
  /\ resp.serverVersion # clientVersion

\* lines 516-521
VersionSkew(resp, clientVersion, endPoint) ==
  /\ resp.serverVersion # NoHeader
  /\ resp.serverVersion # clientVersion
  /\ ~IncludesLogin(endPoint)

HeaderVerdictSkewFirst(resp, clientVersion, endPoint) ==
  IF VersionSkew(resp, clientVersion, endPoint) THEN "resend"
  ELSE IF resp.maintenance THEN "maintenance"
  ELSE "break"

\* lines 514-531: what a received response makes the loop do
HeaderVerdict(resp, clientVersion, endPoint) ==
  IF resp.maintenance THEN "maintenance"
  ELSE IF VersionSkew(resp, clientVersion, endPoint) THEN "resend"
  ELSE "break"

\* lines 523-525
AdoptVersion(s, resp) ==
  [s EXCEPT !.clientVersion = resp.serverVersion, !.nonce = @ + 1]

BodyVerdictNo407(body) ==
  IF body.response_data = "absent" THEN "TypeError"
  ELSE IF body.response_data # "object" THEN "InvalidResponse"
  ELSE "ok"

\* lines 536-540: reading error_code of an absent response_data is a TypeError
BodyVerdict(body) ==
  IF body.response_data = "absent" THEN "TypeError"
  ELSE IF body.response_data = "object" /\ body.error_code = 407 THEN "WrongCredentials"
  ELSE IF body.response_data # "object" THEN "InvalidResponse"
  ELSE "ok"

\* the network's record of physical sends: the latest one and the largest
\* nonce carried by any send before it
Transmitted(w, send) ==
  [ last |-> <<send>>,
    prevMax |-> IF w.last = <<>> THEN w.prevMax
                ELSE Max(w.prevMax, w.last[1].Authorize.nonce) ]

\* lines 499-506: one physical send, up to the await of request.post
SendAttempt(p, c, s, kc) ==
  LET s1 == [s EXCEPT !.nonce = BumpNonce(@)]
      send == [ endPoint |-> c.endPoint, Authorize |-> getAuthorizeString(s1),
                ClientVersion |-> c.headers.ClientVersion, signKey |-> c.signKey,
                body |-> c.formData, sessionVersion |-> s1.clientVersion, slot |-> p ]
  IN  /\ session' = s1
      /\ keychain' = kc
      /\ call' = [call EXCEPT ![p] = [c EXCEPT !.pc = "post", !.sends = @ + 1,
                                                !.errStatus = NoStatus]]
      /\ wire' = Transmitted(wire, send)

\* the logical call raises error
Throw(p, c, s, kc, error) ==
  /\ session' = s
  /\ keychain' = kc
  /\ call' = [call EXCEPT ![p] = [c EXCEPT !.pc = "idle", !.result = error, !.ret = <<>>]]
  /\ wire' = wire

\* postRequest returns body; the caller's continuation runs:
\* APIRequest line 375 (doAuth calls APIRequest too, then runs its lines
\* 566-567), APIMultiRequest line 390
Return(p, c, s, kc, body) ==
  /\ session' = IF c.op = "single"
                THEN [s EXCEPT !.commandNum = commandNumAfter(c.formData, @)]
                ELSE IF c.op = "auth"
                THEN [s EXCEPT !.commandNum = commandNumAfter(c.formData, @),
                               !.authToken = body.authorize_token]
                ELSE IF c.op = "login"
                \* APIRequest line 375, then Gris.login lines 342-343
                THEN [s EXCEPT !.commandNum = commandNumAfter(c.formData, @),
                               !.userId = body.user_id,
                               !.authToken = body.authorize_token]
                ELSE s
  /\ keychain' = IF c.op = "auth"
                 THEN [kc EXCEPT !.sessionKey = xor(c.clientKey, Base64Decode(body.dummy_token))]
                 ELSE kc
  \* the enclosing operation, if any, resumes after its await
  /\ call' = [call EXCEPT ![p] = [c EXCEPT !.pc = IF c.todo = <<>> THEN "idle" ELSE "resume",
                                           !.result = "ok", !.ret = <<body>>]]
  /\ wire' = wire

\* lines 533-540
AfterLoop(p, c, s, kc) ==
  IF c.response = <<>> THEN Throw(p, c, s, kc, "UnableToConnect")
  ELSE LET body == c.response[1].body
       IN  IF BodyVerdict(body) = "ok" THEN Return(p, c, s, kc, body)
           ELSE Throw(p, c, s, kc, BodyVerdict(body))

\* `continue`: the for statement's attempt++ and its condition
Continue(p, c, s, kc) ==
  LET c1 == [c EXCEPT !.attempt = @ + 1]
  IN  IF LoopContinues(c1.attempt) THEN SendAttempt(p, c1, s, kc)
      ELSE AfterLoop(p, c1, s, kc)

\* lines 482-497: entry of postRequest up to the first send
EnterPostRequest(p, op, endPoint, signKey, formData, clientKey, kc, s, given, todo) ==
  LET c == [ IdleCall EXCEPT
               !.op = op, !.endPoint = endPoint, !.signKey = signKey,
               !.formData = formData, !.headers = getHeaders(s),
               !.attempt = 1, !.clientKey = clientKey,
               !.given = given, !.todo = todo,
               !.pre = [ nonce |-> s.nonce, commandNum |-> s.commandNum,
                         clientVersion |-> s.clientVersion,
                         authToken |-> s.authToken,
                         sessionKey |-> kc.sessionKey ] ]
  IN  IF LoopContinues(c.attempt) THEN SendAttempt(p, c, s, kc)
      ELSE AfterLoop(p, c, s, kc)

(***************************************************************************)
(* Operations a caller starts.                                             *)
(***************************************************************************)
CanIssue(p, limit) == call[p].pc = "idle" /\ issued < limit

\* Gris.APIRequest called with one of the given requests
APIRequestOf(p, limit, requests) ==
  /\ CanIssue(p, limit)
  /\ \E r \in requests :
       EnterPostRequest(p, "single", r.endPoint,
                        selectSignKey(keychain, r.useSpecialKey),
                        buildEnvelope(r.endPoint, r.requestData, r.excludeDefaultValues, session),
                        <<>>, keychain, session, <<r>>, <<>>)
  /\ issued' = issued + 1
  /\ UNCHANGED <<platformType, options, probe>>

APIRequest(p, limit) == APIRequestOf(p, limit, Requests)

APIMultiRequest(p, limit) ==
  /\ CanIssue(p, limit)
  /\ \E methods \in MethodLists :
       EnterPostRequest(p, "batch", ApiEndPoint, keychain.sessionKey,
                        stampMethods(methods), <<>>, keychain, session,
                        <<methods>>, <<>>)
  /\ issued' = issued + 1
  /\ UNCHANGED <<platformType, options, probe>>

getAssertationAnyPlatform(platform) == [threw |-> FALSE, error |-> "none"]

\* Gris.getAssertation: a fixed string on iOS, an error elsewhere
getAssertation(platform) ==
  IF platform = iOS THEN [threw |-> FALSE, error |-> "none"]
  ELSE IF platform = Android THEN [threw |-> TRUE, error |-> "UnsupportedPlatform"]
  ELSE [threw |-> TRUE, error |-> "Unimplemented"]

\* Gris.doAuth, lines 549-565, run on session s and keychain kc0 with the
\* fresh client key; todo is what the caller of doAuth does after it
doAuthBody(p, s, kc0, clientKey, todo) ==
  LET kc == [kc0 EXCEPT
               !.sessionKey = xor(xor(kc0.applicationKey, kc0.baseKey), clientKey)]
      assertion == getAssertation(platformType)
  IN  IF assertion.threw
      THEN Throw(p, [IdleCall EXCEPT !.op = "auth", !.clientKey = clientKey],
                 s, kc, assertion.error)
      ELSE EnterPostRequest(p, "auth", AuthKeyEndPoint, kc.sessionKey,
                            buildEnvelope(AuthKeyEndPoint, authKeyRequestData, TRUE, s),
                            clientKey, kc, s, <<>>, todo)

\* Gris.doAuth, lines 543-565 (loginKey and loginPasswd are always strings)
doAuth(p, limit) ==
  /\ CanIssue(p, limit)
  /\ \E clientKey \in ClientKeys : doAuthBody(p, session, keychain, clientKey, <<>>)
  /\ issued' = issued + 1
  /\ UNCHANGED <<platformType, options, probe>>

(***************************************************************************)
(* login, startApp and register: operations made of several calls.  Each   *)
(* is a list of steps; a step runs up to the next await.                   *)
(***************************************************************************)
Step(kind, endPoint, requestData, exclude) ==
  [ kind |-> kind, endPoint |-> endPoint, requestData |-> requestData,
    excludeDefaultValues |-> exclude, useSpecialKey |-> FALSE,
    methods |-> <<>>, args |-> <<>> ]

\* request data with the named fields
Fields(names) == [x \in names |-> CallerValue]

\* await this.APIRequest("module/action", {names})
Single(module, action, names) ==
  Step("single", <<module, action>>, Fields(names), FALSE)

Method(module, action) ==
  [module |-> WordValue(module), action |-> WordValue(action)]

\* await this.APIMultiRequest(methods)
Batch(methods) ==
  [Step("multi", ApiEndPoint, EmptyData, FALSE) EXCEPT !.methods = methods]

\* await sleep(...)
Sleep == Step("sleep", <<>>, EmptyData, FALSE)

\* Gris.startupMultiRequest, lines 393-429
startupMethods ==
  << Method("login", "topInfo"),
     Method("login", "topInfoOnce"),
     Method("live", "liveStatus"),
     Method("live", "schedule"),
     Method("marathon", "marathonInfo"),
     Method("battle", "battleInfo"),
     Method("festival", "festivalInfo"),
     Method("online", "info"),
     Method("challenge", "challengeInfo"),
     Method("quest", "questInfo"),
     Method("duty", "dutyInfo"),
     Method("unit", "unitAll"),
     Method("unit", "deckInfo"),
     Method("unit", "supporterAll"),
     Method("unit", "removableSkillInfo"),
     Method("album", "albumAll"),
     Method("scenario", "scenarioStatus"),
     Method("subscenario", "subscenarioStatus"),
     Method("eventscenario", "status"),
     Method("multiunit", "multiunitscenarioStatus"),
     Method("payment", "productList"),
     Method("banner", "bannerList"),
     Method("notice", "noticeMarquee"),
     Method("user", "getNavi"),
     Method("navigation", "specialCutin"),
     Method("award", "awardInfo"),
     Method("background", "backgroundInfo"),
     Method("stamp", "stampInfo"),
     Method("exchange", "owningPoint"),
     Method("livese", "liveseInfo"),
     Method("liveicon", "liveiconInfo"),
     Method("item", "list") >>

\* Gris.login after its two checks, lines 323-338: the bundle lookup is
\* awaited, then doAuth runs, then login/login is requested
loginSteps ==
  << Step("doAuth", <<>>, EmptyData, FALSE),
     Step("loginRequest", <<"login", "login">>,
          Fields({"login_key", "login_passwd"}), TRUE) >>

\* Gris.startApp after its login, lines 290-304
startAppTail ==
  << Single("user", "userInfo", {}),
     Single("personalnotice", "get", {}),
     Single("tos", "tosCheck", {}),
     Single("handover", "kidStatus", {}),
     Step("single", <<"download", "event">>,
          Fields({"client_version", "os", "package_type",
                  "excluded_package_ids", "commandNum"}), TRUE),
     Single("lbonus", "execute", {}),
     Batch(startupMethods) >>

\* Gris.register after doAuth, lines 197-278
registerTail ==
  << Step("single", <<"login", "startUp">>,
          Fields({"login_key", "login_passwd"}), TRUE),
     Step("login", <<>>, EmptyData, FALSE),
     Single("user", "userInfo", {}),
     Single("tos", "tosCheck", {}),
     Step("unlessTosAgreed", <<>>, EmptyData, FALSE),
     Sleep,
     Single("tos", "tosAgree", {"tos_id"}),
     Single("user", "changeName", {"name"}),
     Single("tutorial", "progress", {"tutorial_state"}),
     Batch(startupMethods),
     Single("login", "unitList", {}),
     Sleep,
     Step("selectLeader", <<"login", "unitSelect">>,
          Fields({"unit_initial_set_id"}), FALSE),
     Single("tutorial", "skip", {}),
     Batch(<< Method("unit", "unitAll"), Method("unit", "deckInfo"),
              Method("unit", "supporterAll") >>),
     Single("unit", "merge", {"unit_owning_user_ids", "base_owning_unit_user_id",
                              "unit_support_list"}),
     Single("tutorial", "skip", {}),
     Single("unit", "rankUp", {"unit_owning_user_ids", "base_owning_unit_user_id"}),
     Single("tutorial", "skip", {}),
     Single("user", "userInfo", {}),
     Single("personalnotice", "get", {}),
     Single("lbonus", "execute", {}),
     Batch(startupMethods) >>

\* an optional string argument: <<>> when it is not given
Given(str) == <<str>>

\* the options a caller passes to register: none, sound credentials,
\* credentials of another shape, a login key without a passwd
RegisterOptions ==
  { [loginKey |-> <<>>, loginPasswd |-> <<>>],
    [loginKey |-> Given(SampleLoginKey), loginPasswd |-> Given(SampleLoginPasswd)],
    [loginKey |-> Given(<<"x">>), loginPasswd |-> Given(<<"y">>)],
    [loginKey |-> Given(<<"x">>), loginPasswd |-> <<>>] }

\* Gris.generateCredentials: a fresh UUID and a SHA-512 digest in hex
GeneratedCredentials ==
  { [loginKey |-> SampleLoginKey, loginPasswd |-> SampleLoginPasswd] }

\* register lines 184-191: the credentials stored in the keychain
registerCredentials(opts, generated) ==
  IF opts.loginKey = <<>> \/ opts.loginPasswd = <<>> THEN generated
  ELSE [loginKey |-> opts.loginKey[1], loginPasswd |-> opts.loginPasswd[1]]

\* results of the bundle lookup
BundleVersions == {"6.9.2"}

\* Gris.login lines 314-323: the two checks, then the bundle lookup is
\* started; rest is what the caller of login does after it
beginLogin(p, rest) ==
  IF ~loginKeyAccepted(keychain.loginKey)
  THEN Throw(p, [IdleCall EXCEPT !.op = "login"], session, keychain, "LoginKeyInvalid")
  ELSE IF ~loginPasswdAccepted(keychain.loginPasswd)
  THEN Throw(p, [IdleCall EXCEPT !.op = "login"], session, keychain, "LoginPasswdInvalid")
  ELSE /\ call' = [call EXCEPT ![p] = [IdleCall EXCEPT !.pc = "bundle", !.op = "login",
                                                         !.todo = loginSteps \o rest]]
       /\ UNCHANGED <<session, keychain, wire>>

\* Gris.login
login(p, limit) ==
  /\ CanIssue(p, limit)
  /\ beginLogin(p, <<>>)
  /\ UNCHANGED <<platformType, issued, options, probe>>

\* Gris.startApp
startApp(p, limit) ==
  /\ CanIssue(p, limit)
  /\ beginLogin(p, startAppTail)
  /\ UNCHANGED <<platformType, issued, options, probe>>

\* Gris.register, up to its await of the bundle lookup (line 182)
register(p, limit) ==
  /\ CanIssue(p, limit)
  /\ \E opts \in RegisterOptions :
       call' = [call EXCEPT ![p] =
                  [IdleCall EXCEPT !.pc = "bundle", !.op = "register",
                     !.todo = << [Step("register", <<>>, EmptyData, FALSE)
                                    EXCEPT !.args = <<opts>>] >> \o registerTail]]
  /\ UNCHANGED <<session, keychain, wire, platformType, issued, options, probe>>

\* getLatestBundleVersion resolves: register lines 182-196 or login lines
\* 323-325, then doAuth up to its handshake request
BundleResolved(p, limit) ==
  /\ call[p].pc = "bundle"
  /\ issued < limit
  /\ \E version \in BundleVersions, clientKey \in ClientKeys, generated \in GeneratedCredentials :
       LET head == call[p].todo[1]
           s == [session EXCEPT !.bundleVersion = version]
           stored == registerCredentials(head.args[1], generated)
           kc == IF head.kind = "register"
                 THEN [keychain EXCEPT !.loginKey = stored.loginKey,
                                       !.loginPasswd = stored.loginPasswd]
                 ELSE keychain
       IN  doAuthBody(p, s, kc, clientKey, Tail(call[p].todo))
  /\ issued' = issued + 1
  /\ UNCHANGED <<platformType, options, probe>>

\* getLatestBundleVersion rejects, or its answer cannot be read
BundleRejected(p) ==
  /\ call[p].pc = "bundle"
  /\ Throw(p, call[p], session, keychain, "BundleLookupFailed")
  /\ UNCHANGED <<platformType, issued, options, probe>>

\* the enclosing operation goes on after an await: its next step
Resume(p, limit) ==
  /\ call[p].pc = "resume"
  /\ LET head == call[p].todo[1]
         rest == Tail(call[p].todo)
     IN  CASE head.kind \in {"single", "loginRequest"} ->
                /\ issued < limit
                /\ EnterPostRequest(p, IF head.kind = "single" THEN "single" ELSE "login",
                                    head.endPoint,
                                    selectSignKey(keychain, head.useSpecialKey),
                                    buildEnvelope(head.endPoint, head.requestData,
                                                  head.excludeDefaultValues, session),
                                    <<>>, keychain, session, <<head>>, rest)
                /\ issued' = issued + 1
           [] head.kind = "multi" ->
                /\ issued < limit
                /\ EnterPostRequest(p, "batch", ApiEndPoint, keychain.sessionKey,
                                    stampMethods(head.methods), <<>>, keychain, session,
                                    <<head.methods>>, rest)
                /\ issued' = issued + 1
           [] head.kind = "login" ->
                /\ beginLogin(p, rest)
                /\ issued' = issued
           [] head.kind = "sleep" ->
                /\ call' = [call EXCEPT ![p].todo = rest]
                /\ UNCHANGED <<session, keychain, wire, issued>>
           \* register lines 218-224: tos.response_data.is_agreed is false or not
           [] head.kind = "unlessTosAgreed" ->
                /\ \E agreed \in BOOLEAN :
                     call' = [call EXCEPT ![p].todo = IF agreed THEN Tail(Tail(rest))
                                                      ELSE rest]
                /\ UNCHANGED <<session, keychain, wire, issued>>
           \* register lines 242-251: the leader picked at random sets the mode
           [] head.kind = "selectLeader" ->
                /\ issued < limit
                /\ \E mode \in {MUSE, AQOURS} :
                     LET s == [session EXCEPT !.mgd = mode]
                     IN  EnterPostRequest(p, "single", head.endPoint, keychain.sessionKey,
                                          buildEnvelope(head.endPoint, head.requestData,
                                                        FALSE, s),
                                          <<>>, keychain, s, <<head>>, rest)
                /\ issued' = issued + 1
  /\ UNCHANGED <<platformType, options, probe>>

(***************************************************************************)
(* Resumptions of an awaiting call.                                        *)
(***************************************************************************)
\* request.post rejects with one of the statuses: lines 507-513
PostRejectedOf(p, statuses) ==
  /\ call[p].pc = "post"
  /\ \E status \in statuses :
       IF IsLocked(status)
       THEN Throw(p, [call[p] EXCEPT !.errStatus = status],
                  session, keychain, "AccountLocked")
       ELSE LET c == [call[p] EXCEPT !.errStatus = status,
                                     !.failures = IF status = 423 THEN @ ELSE @ + 1]
            IN  IF IsLastAttempt(c.attempt)
                THEN Throw(p, c, session, keychain, "MaxAttempts")
                ELSE /\ call' = [call EXCEPT ![p] = [c EXCEPT !.pc = "sleep3"]]
                     /\ UNCHANGED <<session, keychain, wire>>
  /\ UNCHANGED <<platformType, issued, options, probe>>

PostRejected(p) == PostRejectedOf(p, ErrStatuses)

\* request.post resolves with one of the responses: lines 514-531
PostResolvedOf(p, responses) ==
  /\ call[p].pc = "post"
  /\ \E resp \in responses :
       LET verdict == HeaderVerdict(resp, session.clientVersion, call[p].endPoint)
           c == [call[p] EXCEPT !.response = <<resp>>,
                                !.skews = IF verdict = "resend" THEN @ + 1 ELSE @]
       IN  IF verdict = "maintenance"
           THEN Throw(p, c, session, keychain, "Maintenance")
           ELSE IF verdict = "resend"
           THEN /\ session' = AdoptVersion(session, resp)
                /\ call' = [call EXCEPT ![p] = [c EXCEPT !.pc = "sleep1"]]
                /\ UNCHANGED <<keychain, wire>>
           ELSE AfterLoop(p, c, session, keychain)
  /\ UNCHANGED <<platformType, issued, options, probe>>

PostResolved(p) == PostResolvedOf(p, Responses)

\* sleep(3000) elapses: line 512
RetryAfterError(p) ==
  /\ call[p].pc = "sleep3"
  /\ Continue(p, call[p], session, keychain)
  /\ UNCHANGED <<platformType, issued, options, probe>>

\* sleep(1000) elapses: line 529
ResendAfterVersion(p) ==
  /\ call[p].pc = "sleep1"
  /\ Continue(p, call[p], session, keychain)
  /\ UNCHANGED <<platformType, issued, options, probe>>

(***************************************************************************)
(* Specification: one caller issuing its operations one after another.     *)
(***************************************************************************)
Caller == {1}

Next ==
  \E p \in Caller :
    \/ APIRequest(p, MaxCalls)
    \/ APIMultiRequest(p, MaxCalls)
    \/ doAuth(p, MaxCalls)
    \/ PostRejected(p)
    \/ PostResolved(p)
    \/ RetryAfterError(p)
    \/ ResendAfterVersion(p)

Spec == Init /\ [][Next]_vars

FairNext ==
  \E p \in Caller :
    \/ APIRequest(p, MaxFairCalls)
    \/ APIMultiRequest(p, MaxFairCalls)
    \/ doAuth(p, MaxFairCalls)
    \/ PostRejected(p)
    \/ PostResolved(p)
    \/ RetryAfterError(p)
    \/ ResendAfterVersion(p)

\* every timer fires and the network settles every request, by a response
\* or by an error: a step that is possible is eventually taken
FairSpec == Init /\ [][FairNext]_vars /\ WF_vars(FairNext)

(***************************************************************************)
(* xor applied to byte sequences: probe holds the arguments a and b, then  *)
(* out = xor(a, b), then back = xor(out, b).                               *)
(***************************************************************************)
\* bytes with all, none and some bits set
ProbeBytes == {0, 1, 90, 165, 255}

ByteSeqs == UNION {[1..n -> ProbeBytes] : n \in 0..MaxXorLen}

XorInit ==
  /\ NewGris(NoCredentials, defaultPlatform)
  /\ \E a \in ByteSeqs, b \in ByteSeqs :
       probe = [stage |-> "args", a |-> a, b |-> b, out |-> <<>>, back |-> <<>>]

\* out = xor(a, b)
ApplyXor ==
  /\ probe.stage = "args"
  /\ probe' = [probe EXCEPT !.stage = "out", !.out = xor(probe.a, probe.b)]
  /\ UNCHANGED <<session, keychain, platformType, call, wire, issued, options>>

\* back = xor(out, b)
ApplyXorAgain ==
  /\ probe.stage = "out"
  /\ probe' = [probe EXCEPT !.stage = "back", !.back = xor(probe.out, probe.b)]
  /\ UNCHANGED <<session, keychain, platformType, call, wire, issued, options>>

XorNext == ApplyXor \/ ApplyXorAgain

XorSpec == XorInit /\ [][XorNext]_vars

(***************************************************************************)
(* Clients made with or without stored credentials, on either platform,    *)
(* that log in, start the application and register.                        *)
(***************************************************************************)
\* logical calls of all operations together
MaxLoginCalls == 3

SampleCredentials == [loginKey |-> SampleLoginKey, loginPasswd |-> SampleLoginPasswd]

LoginInit ==
  \E opts \in {NoCredentials, SampleCredentials}, platform \in {iOS, Android} :
    Construct(opts, platform)

LoginNext ==
  \E p \in Caller :
    \/ login(p, MaxLoginCalls)
    \/ startApp(p, MaxLoginCalls)
    \/ register(p, MaxLoginCalls)
    \/ BundleResolved(p, MaxLoginCalls)
    \/ BundleRejected(p)
    \/ Resume(p, MaxLoginCalls)
    \/ PostRejected(p)
    \/ PostResolved(p)
    \/ RetryAfterError(p)
    \/ ResendAfterVersion(p)

LoginSpec == LoginInit /\ [][LoginNext]_vars

(***************************************************************************)
(* Single calls with and without fields of the default names in the        *)
(* caller's request data, while the game mode is being switched.           *)
(***************************************************************************)
MaxEnvelopeCalls == 1

\* the fields a caller puts into its request data
CallerFieldSets ==
  { {}, {"name", "mgd"}, {"commandNum"},
    {"name", "module", "action", "timeStamp", "mgd", "commandNum"} }

EnvelopeRequests ==
  [ endPoint : {<<"user", "changeName">>}, requestData : {Fields(f) : f \in CallerFieldSets},
    excludeDefaultValues : BOOLEAN, useSpecialKey : {FALSE} ]

\* the gameMode setter, lines 98-100
setGameMode ==
  /\ \E mode \in {MUSE, AQOURS} :
       /\ mode # session.mgd
       /\ session' = [session EXCEPT !.mgd = mode]
  /\ UNCHANGED <<keychain, platformType, call, wire, issued, options, probe>>

EnvelopeNext ==
  \/ setGameMode
  \/ \E p \in Caller :
       \/ APIRequestOf(p, MaxEnvelopeCalls, EnvelopeRequests)
       \/ PostRejected(p)
       \/ PostResolved(p)
       \/ RetryAfterError(p)
       \/ ResendAfterVersion(p)

EnvelopeSpec == Init /\ [][EnvelopeNext]_vars

(***************************************************************************)
(* Key Exchanges and calls signed with the session key, one after another. *)
(***************************************************************************)
MaxKeyCalls == 3

\* the calls of Requests that are signed with the session key
KeyRequests ==
  {r \in Requests : ~r.useSpecialKey /\ ~r.excludeDefaultValues}

KeyNext ==
  \E p \in Caller :
    \/ doAuth(p, MaxKeyCalls)
    \/ APIRequestOf(p, MaxKeyCalls, KeyRequests)
    \/ PostRejected(p)
    \/ PostResolved(p)
    \/ RetryAfterError(p)
    \/ ResendAfterVersion(p)

KeySpec == Init /\ [][KeyNext]_vars

(***************************************************************************)
(* Two callers on one client: their token-carrying calls are in flight at  *)
(* the same time and interleave at every await.  The server answers with   *)
(* or without a newer version, or the transport fails.                     *)
(***************************************************************************)
MaxConcurrentCalls == 2

ConcurrentRequests ==
  {r \in Requests : ~r.useSpecialKey /\ ~r.excludeDefaultValues}

ConcurrentResponses ==
  {r \in Responses : ~r.maintenance /\ r.serverVersion # defaultClientVersion
                       /\ r.body.response_data = "object" /\ r.body.error_code = 0}

ConcurrentStatuses == {0}

ConcurrentNext ==
  \E p \in Slots :
    \/ APIRequestOf(p, MaxConcurrentCalls, ConcurrentRequests)
    \/ PostRejectedOf(p, ConcurrentStatuses)
    \/ PostResolvedOf(p, ConcurrentResponses)
    \/ RetryAfterError(p)
    \/ ResendAfterVersion(p)

ConcurrentSpec == Init /\ [][ConcurrentNext]_vars

(***************************************************************************)
(* The credential checks applied to strings: clients are made with a login *)
(* key and a login passwd that differ from sound ones in one character or  *)
(* in length, and then log in.                                             *)
(***************************************************************************)
ProbeChars ==
  {"0", "4", "7", "8", "9", "a", "b", "c", "f", "A", "B", "F", "g", "G", "z", "Z", "-"}

LoginKeyInputs ==
  { Replace(SampleLoginKey, i, ch) : i \in 1..Len(SampleLoginKey), ch \in ProbeChars }
    \cup { EmptyString, SubSeq(SampleLoginKey, 1, 35), SampleLoginKey \o <<"0">>,
           <<"0">> \o SampleLoginKey }

LoginPasswdInputs ==
  { Replace(SampleLoginPasswd, i, ch) : i \in {1, 64, 128}, ch \in ProbeChars }
    \cup { EmptyString, SubSeq(SampleLoginPasswd, 1, 127),
           SampleLoginPasswd \o <<"0">>, SampleLoginPasswd \o <<"-">> }

ValidatorInit ==
  \E opts \in [loginKey : LoginKeyInputs, loginPasswd : {SampleLoginPasswd}]
                \cup [loginKey : {SampleLoginKey}, loginPasswd : LoginPasswdInputs] :
    Construct(opts, defaultPlatform)

ValidatorNext == \E p \in Caller : login(p, MaxLoginCalls)

ValidatorSpec == ValidatorInit /\ [][ValidatorNext]_vars

TypeOK ==
  /\ session.nonce \in Nat
  /\ session.commandNum \in Nat
  /\ session.clientVersion \in Versions
  /\ \A p \in Slots : call[p].pc \in {"idle", "post", "sleep3", "sleep1", "bundle", "resume"}

(***************************************************************************)
(* Properties.                                                             *)
(***************************************************************************)
\* the logical call in slot p ends in this step
Ends(p) == call[p].pc # "idle" /\ call'[p].pc = "idle"

\* the call is over and its last response passed the loop: no rejection was
\* being handled and the response had no maintenance flag, so its body was read
BodyExamined(c) ==
  /\ c.pc = "idle"
  /\ c.errStatus = NoStatus
  /\ c.response # <<>>
  /\ ~c.response[1].maintenance

\* a response of the 'Otherwise' row: an object without error code 407
SuccessBody(body) == body.response_data = "object" /\ body.error_code # 407

\* C1: every physical send carries a nonce strictly greater than the nonce of
\* every earlier physical send of the client (wire.prevMax is the largest
\* nonce any earlier send carried).
C1_NonceStrictlyIncreasing ==
  wire.last # <<>> => wire.last[1].Authorize.nonce > wire.prevMax

\* a retry and a second logical call have both sent after earlier sends
C1_Witness ==
  /\ issued >= 2
  /\ call[1].sends >= 2
  /\ call[1].failures >= 1
  /\ wire.prevMax >= 3

\* C2: commandNum changes only by +1, at the successful return of a single
\* call (the handshake is one, made by doAuth) whose sent envelope carried a
\* command token; and every such return does increase it.  Batch calls,
\* calls without a token and failing calls leave it alone.
C2_CommandNumOnlyOnTokenSuccess ==
  [][ /\ session'.commandNum # session.commandNum =>
           /\ session'.commandNum = session.commandNum + 1
           /\ \E p \in Slots :
                /\ Ends(p)
                /\ call[p].op \in {"single", "auth"}
                /\ "commandNum" \in DOMAIN call[p].formData
                /\ call'[p].result = "ok"
      /\ \A p \in Slots :
           ( /\ Ends(p)
             /\ call[p].op \in {"single", "auth"}
             /\ "commandNum" \in DOMAIN call[p].formData
             /\ call'[p].result = "ok" )
           => session'.commandNum = session.commandNum + 1
    ]_vars

\* a token-carrying single call returned after a retry and raised commandNum,
\* following a first call that left it alone
C2_Witness ==
  /\ issued >= 2
  /\ call[1].pc = "idle"
  /\ call[1].op = "single"
  /\ call[1].result = "ok"
  /\ call[1].sends >= 2
  /\ call[1].pre.commandNum = defaultCommandNum
  /\ session.commandNum = defaultCommandNum + 1

\* C3 (as claimed): after the backoff that follows a version-skew response
\* the request is sent again, and a transport failure is retried whenever
\* fewer than 5 transport failures have occurred in the call.
C3_SkewResendKeepsBudget ==
  [][ \A p \in Slots :
        /\ (call[p].pc = "sleep1" /\ call'[p].pc # "sleep1") =>
             (call'[p].pc = "post" /\ call'[p].sends = call[p].sends + 1)
        /\ ( /\ call[p].pc = "post"
             /\ call'[p].failures = call[p].failures + 1
             /\ call'[p].failures < 5 ) => call'[p].pc = "sleep3"
    ]_vars

\* C4 (as claimed): a body without response_data that ends the loop makes
\* the call fail with the malformed-response error.
C4_MissingDataIsInvalidResponse ==
  \A p \in Slots :
    (BodyExamined(call[p]) /\ call[p].response[1].body.response_data = "absent")
      => call[p].result = "InvalidResponse"

\* C5: 4 generic transport failures followed by a success response on the
\* 5th attempt: the call returns that response's body, 5 physical sends were
\* made and nonce advanced by exactly 5.
C5_FourFailuresThenSuccess ==
  \A p \in Slots :
    ( /\ BodyExamined(call[p])
      /\ call[p].failures = 4
      /\ call[p].skews = 0
      /\ SuccessBody(call[p].response[1].body) )
    => /\ call[p].result = "ok"
       /\ call[p].ret = <<call[p].response[1].body>>
       /\ call[p].sends = 5
       /\ session.nonce = call[p].pre.nonce + 5

C5_Witness ==
  /\ BodyExamined(call[1])
  /\ call[1].failures = 4
  /\ call[1].skews = 0
  /\ call[1].result = "ok"
  /\ call[1].sends = 5
  /\ call[1].pre.nonce > 0

\* C6 (as claimed): a call fails with the max-attempts error exactly when
\* its 5th non-423 transport failure has occurred.
C6_MaxAttemptsIffFiveFailures ==
  \A p \in Slots :
    (call[p].result = "MaxAttempts") <=> (call[p].failures = 5)

C8_LockedIsTerminal ==
  \A p \in Slots :
    call[p].errStatus = 423 =>
      /\ call[p].pc = "idle"
      /\ call[p].result = "AccountLocked"
      /\ wire.last[1].slot = p
      /\ wire.last[1].Authorize.nonce = session.nonce
      /\ session.commandNum = call[p].pre.commandNum

\* the 423 arrived on a later attempt of a token-carrying call
C8_Witness ==
  /\ call[1].errStatus = 423
  /\ call[1].attempt >= 3
  /\ call[1].op = "single"
  /\ "commandNum" \in DOMAIN call[1].formData

\* C9: when the body read after the loop has error_code 407 the call ends
\* with the credential-rejected error, nothing is sent in that step, and
\* sessionKey, authToken and commandNum are what they were when the call
\* started.
C9_CredentialRejected ==
  [][ \A p \in Slots :
        ( /\ Ends(p)
          /\ BodyExamined(call'[p])
          /\ call'[p].response[1].body.response_data = "object"
          /\ call'[p].response[1].body.error_code = 407 )
        => /\ call'[p].result = "WrongCredentials"
           /\ wire' = wire
           /\ session'.commandNum = call[p].pre.commandNum
           /\ session'.authToken = call[p].pre.authToken
           /\ keychain'.sessionKey = call[p].pre.sessionKey
    ]_vars

\* a handshake was answered with 407 after an earlier handshake had set authToken
C9_Witness ==
  /\ BodyExamined(call[1])
  /\ call[1].response[1].body.error_code = 407
  /\ call[1].result = "WrongCredentials"
  /\ call[1].op = "auth"
  /\ session.authToken # ""

\* C10: a response with the maintenance flag ends the call with the
\* maintenance error whatever the attempt, nothing more is sent, and
\* clientVersion is left alone even if the server-version header differs.
C10_MaintenanceFirst ==
  [][ \A p \in Slots :
        ( /\ call[p].pc = "post"
          /\ call'[p].response # <<>>
          /\ call'[p].response[1].maintenance )
        => /\ call'[p].pc = "idle"
           /\ call'[p].result = "Maintenance"
           /\ wire' = wire
           /\ session'.clientVersion = session.clientVersion
    ]_vars

\* maintenance arrived on a later attempt of a non-login call together with
\* a server-version header that differs from clientVersion
C10_Witness ==
  /\ call[1].result = "Maintenance"
  /\ call[1].attempt >= 2
  /\ ~IncludesLogin(call[1].endPoint)
  /\ call[1].response[1].serverVersion \notin {NoHeader, session.clientVersion}

\* C12: keychain.sessionKey is assigned only by a Key Exchange that
\* completes successfully: every step that changes sessionKey is the step in
\* which a handshake call returns its response, so a failed Key Exchange
\* leaves sessionKey as it was before the exchange started.
C12_SessionKeyOnlyOnSuccess ==
  [][ keychain'.sessionKey # keychain.sessionKey
        => \E p \in Slots : /\ call[p].pc = "post"
                            /\ call[p].op = "auth"
                            /\ call'[p].pc # "post"
                            /\ call'[p].result = "ok" ]_vars

\* the response a call returned to its caller, when it arrived, was of the
\* 'Otherwise' row: no maintenance flag, a response_data without error code
\* 407, and for a non-login call a server-version header that is absent or
\* equal to the stored clientVersion
OtherwiseRow(resp, clientVersion, endPoint) ==
  /\ ~resp.maintenance
  /\ SuccessBody(resp.body)
  /\ \/ IncludesLogin(endPoint)
     \/ resp.serverVersion = NoHeader
     \/ resp.serverVersion = clientVersion

\* C19: a logical call returns a response to its caller only in the step in
\* which that response arrives, and only if the response is of the 'Otherwise'
\* row with respect to the clientVersion stored at that moment; a
\* version-skewed response to a non-login call is never returned.
C19_ReturnsOnlyOtherwiseRow ==
  [][ \A p \in Slots :
        (call[p].pc \in {"post", "sleep3", "sleep1"}
           /\ call'[p].pc \notin {"post", "sleep3", "sleep1"}
           /\ call'[p].result = "ok")
        => /\ call[p].pc = "post"
           /\ call'[p].ret = <<call'[p].response[1].body>>
           /\ OtherwiseRow(call'[p].response[1], session.clientVersion,
                           call[p].endPoint) ]_vars

\* C20 (first part): a response to a login call is never answered by a
\* resend: the call ends in the step the response arrives, clientVersion,
\* nonce and the network's record of sends stay as they were, and a response
\* with a sound body is returned whatever its server-version header says.
C20_LoginCallIgnoresSkew ==
  [][ \A p \in Slots :
        (call[p].pc = "post" /\ IncludesLogin(call[p].endPoint)
           /\ call'[p].response # call[p].response)
        => /\ call'[p].pc \notin {"post", "sleep3", "sleep1"}
           /\ call'[p].skews = 0
           /\ session'.clientVersion = session.clientVersion
           /\ session'.nonce = session.nonce
           /\ wire' = wire
           /\ (~call'[p].response[1].maintenance
                 /\ SuccessBody(call'[p].response[1].body)
               => call'[p].result = "ok") ]_vars

\* C20 (second part): clientVersion changes only in a step in which a
\* non-login call receives a response, and the new value is that response's
\* server-version header.
C20_VersionChangesOnlyInNonLoginCall ==
  [][ session'.clientVersion # session.clientVersion
        => \E p \in Slots :
             /\ call[p].pc = "post"
             /\ ~IncludesLogin(call[p].endPoint)
             /\ call'[p].response # <<>>
             /\ session'.clientVersion = call'[p].response[1].serverVersion ]_vars

\* C20: both parts.
C20_LoginCallsKeepVersion ==
  C20_LoginCallIgnoresSkew /\ C20_VersionChangesOnlyInNonLoginCall

\* a login call has returned a response whose server-version header differs
\* from the stored clientVersion, after a non-login call adopted a version
C20_Witness ==
  \E p \in Slots :
    /\ call[p].pc = "idle"
    /\ call[p].result = "ok"
    /\ IncludesLogin(call[p].endPoint)
    /\ call[p].response[1].serverVersion \notin {NoHeader, session.clientVersion}
    /\ session.clientVersion # defaultClientVersion
    /\ session.nonce = call[p].pre.nonce + 1

\* C17: a batch call sends to the api endpoint the caller's records, in the
\* caller's order and number, each with the caller's fields plus a timeStamp
\* and nothing else (no mgd, no command token), and session.commandNum is,
\* while the call runs and after it ended in success or failure, what it was
\* when the call started.
C17_BatchStampsTimeOnly ==
  \A p \in Caller :
    call[p].op = "batch" =>
      LET c == call[p]
          methods == c.given[1]
      IN  /\ c.endPoint = ApiEndPoint
          /\ wire.last[1].slot = p => /\ wire.last[1].endPoint = ApiEndPoint
                                      /\ wire.last[1].body = c.formData
          /\ Len(c.formData) = Len(methods)
          /\ \A i \in 1..Len(methods) :
               /\ DOMAIN c.formData[i] = DOMAIN methods[i] \cup {"timeStamp"}
               /\ c.formData[i].timeStamp = TimeStampValue
               /\ \A k \in DOMAIN methods[i] \ {"timeStamp"} :
                    c.formData[i][k] = methods[i][k]
               /\ {"mgd", "commandNum"} \cap DOMAIN c.formData[i] = {}
          /\ session.commandNum = c.pre.commandNum

\* after a token-carrying single call, a batch call of two records was sent
\* again after a transport failure and has returned
C17_Witness ==
  /\ call[1].op = "batch"
  /\ call[1].pc = "idle"
  /\ call[1].result = "ok"
  /\ call[1].sends = 2
  /\ Len(call[1].given[1]) = 2
  /\ session.commandNum > defaultCommandNum

\* bit k of byte x
Bit(x, k) == (x \div (2 ^ k)) % 2

\* C18: xor(a, b) has the length of the shorter argument and its i-th byte
\* is a byte whose every bit is the exclusive or of the same bits of a[i] and
\* b[i]; for arguments of equal length, xor(xor(a, b), b) is a.
C18_XorBytewiseAndInvolutive ==
  /\ probe.stage \in {"out", "back"} =>
       /\ Len(probe.out) = IF Len(probe.a) < Len(probe.b) THEN Len(probe.a)
                           ELSE Len(probe.b)
       /\ \A i \in 1..Len(probe.out) :
            /\ probe.out[i] \in 0..255
            /\ \A k \in 0..7 :
                 Bit(probe.out[i], k)
                   = IF Bit(probe.a[i], k) = Bit(probe.b[i], k) THEN 0 ELSE 1
  /\ (probe.stage = "back" /\ Len(probe.a) = Len(probe.b)) => probe.back = probe.a

\* xor was applied twice to two different sequences of the greatest length,
\* and once to arguments of different lengths
C18_Witness ==
  /\ probe.stage = "back"
  /\ Len(probe.a) = MaxXorLen
  /\ Len(probe.b) = MaxXorLen
  /\ probe.a # probe.b
  /\ probe.out \notin {probe.a, probe.b}

\* the step starts a Key Exchange in slot p: the bundle lookup has resolved
\* and doAuth has run up to its handshake request
StartsKeyExchange(p) ==
  /\ call[p].pc = "bundle"
  /\ call'[p].pc # "bundle"
  /\ call'[p].op = "auth"

\* C11: a Key Exchange started while the stored loginKey or loginPasswd is
\* not of the accepted shape fails in the step that starts it, without a
\* physical send and with nonce unchanged.
C11_MalformedCredentialsSendNothing ==
  [][ \A p \in Slots :
        (StartsKeyExchange(p)
           /\ (~loginKeyAccepted(keychain'.loginKey)
                 \/ ~loginPasswdAccepted(keychain'.loginPasswd)))
        => /\ call'[p].pc = "idle"
           /\ call'[p].result # "ok"
           /\ wire' = wire
           /\ session'.nonce = session.nonce ]_vars

\* the letters and digits of hexadecimal notation, in either case
HexChars ==
  { "0", "1", "2", "3", "4", "5", "6", "7", "8", "9",
    "a", "b", "c", "d", "e", "f", "A", "B", "C", "D", "E", "F" }

\* C13: a loginPasswd the constructor stored, or login let pass, is exactly
\* 128 characters long and made of hexadecimal digits only.
C13_PasswdAcceptedOnlyIfHex ==
  (keychain.loginPasswd # EmptyString
     \/ \E p \in Slots : call[p].op = "login" /\ call[p].pc = "bundle")
  => /\ Len(keychain.loginPasswd) = 128
     /\ \A i \in 1..Len(keychain.loginPasswd) : keychain.loginPasswd[i] \in HexChars

\* 8-4-4-4-12 hexadecimal groups separated by "-", the third starting with
\* 4 and the fourth with 8, 9, A or B in either case
KeyShape(str) ==
  /\ Len(str) = 36
  /\ \A i \in {9, 14, 19, 24} : str[i] = "-"
  /\ str[15] = "4"
  /\ str[20] \in {"8", "9", "a", "b", "A", "B"}
  /\ \A i \in (1..36) \ {9, 14, 19, 24} : str[i] \in HexChars

\* C14: the constructor stores the login key it is given exactly when the
\* key has the UUID-v4 shape and leaves the stored key empty otherwise, and
\* login raises its login-key error exactly when the stored key does not
\* have that shape.
C14_KeyAcceptedIffUuidV4 ==
  /\ KeyShape(options.loginKey) => keychain.loginKey = options.loginKey
  /\ ~KeyShape(options.loginKey) => keychain.loginKey = EmptyString
  /\ \A p \in Caller :
       call[p].op = "login" =>
         (call[p].result = "LoginKeyInvalid" <=> ~KeyShape(keychain.loginKey))

\* a key with an upper-case variant nibble and a lower-case hex letter was
\* stored and passed the check of login
C14_Witness ==
  /\ Len(options.loginKey) = 36
  /\ options.loginKey[20] = "B"
  /\ options.loginKey[1] = "3"
  /\ options.loginKey[2] = "f"
  /\ keychain.loginKey = options.loginKey
  /\ call[1].op = "login"
  /\ call[1].pc = "bundle"

\* C15 (first part): on Android no handshake request is ever on the wire.
C15_AndroidNeverSendsHandshake ==
  platformType = Android =>
    (wire.last = <<>> \/ wire.last[1].endPoint # AuthKeyEndPoint)

\* C15 (second part): on Android a Key Exchange fails with the
\* unsupported-platform error in the step that starts it, without a physical
\* send and with nonce and authToken unchanged.
C15_AndroidKeyExchangeFails ==
  [][ \A p \in Slots :
        (platformType = Android /\ StartsKeyExchange(p))
        => /\ call'[p].pc = "idle"
           /\ call'[p].result = "UnsupportedPlatform"
           /\ wire' = wire
           /\ session'.nonce = session.nonce
           /\ session'.authToken = session.authToken ]_vars

\* C15: both parts.
C15_AndroidFailsBeforeHandshake ==
  []C15_AndroidNeverSendsHandshake /\ C15_AndroidKeyExchangeFails

\* on Android a Key Exchange of register, with sound credentials stored,
\* has failed with the unsupported-platform error
C15_Witness ==
  /\ platformType = Android
  /\ call[1].op = "auth"
  /\ call[1].pc = "idle"
  /\ call[1].result = "UnsupportedPlatform"
  /\ options.loginKey = EmptyString
  /\ keychain.loginKey = SampleLoginKey

\* what a field of one of the default names is stamped with
Stamped(k, mgd, commandNum) ==
  IF k = "timeStamp" THEN [kind |-> "timeStamp", num |-> 0]
  ELSE IF k = "mgd" THEN [kind |-> "mgd", num |-> mgd]
  ELSE [kind |-> "loginKey.timeStamp.commandNum", num |-> commandNum]

\* C16: the envelope a single call sends is the caller's request data, and
\* (a) without the option: with module and action set to the two parts of
\* the endpoint and timeStamp, mgd and commandNum set to the current time,
\* game mode and command token, whatever the caller supplied under these
\* names; (b) with the option: with the same fields as the caller's data,
\* those named timeStamp, mgd and commandNum restamped, the others as given.
C16_EnvelopeStamping ==
  [][ \A p \in Slots :
        (call[p].pc = "idle" /\ call'[p].pc = "post" /\ call'[p].op = "single")
        => LET r == call'[p].given[1]
               e == call'[p].formData
               stamps == {"timeStamp", "mgd", "commandNum"}
           IN  /\ wire'.last[1].body = e
               /\ wire'.last[1].endPoint = r.endPoint
               /\ IF r.excludeDefaultValues
                  THEN /\ DOMAIN e = DOMAIN r.requestData
                       /\ \A k \in DOMAIN e :
                            e[k] = IF k \in stamps
                                   THEN Stamped(k, session.mgd, session.commandNum)
                                   ELSE r.requestData[k]
                  ELSE /\ DOMAIN e = DOMAIN r.requestData \cup stamps \cup {"module", "action"}
                       /\ e.module = [kind |-> r.endPoint[1], num |-> 0]
                       /\ e.action = [kind |-> r.endPoint[2], num |-> 0]
                       /\ \A k \in stamps :
                            e[k] = Stamped(k, session.mgd, session.commandNum)
                       /\ \A k \in DOMAIN r.requestData \ (stamps \cup {"module", "action"}) :
                            e[k] = r.requestData[k] ]_vars

\* after a switch of the game mode, a call made with the option and with a
\* caller's mgd and name has returned: mgd was restamped with the new mode
C16_Witness ==
  /\ call[1].op = "single"
  /\ call[1].result = "ok"
  /\ call[1].given[1].excludeDefaultValues
  /\ DOMAIN call[1].given[1].requestData = {"name", "mgd"}
  /\ call[1].formData.mgd.num = MUSE
  /\ call[1].formData.name = CallerValue

\* C22: every physical send carries a Client-Version header equal to
\* session.clientVersion at the moment of the send; the resend after the
\* adoption of a server version carries the adopted version.
C22_HeaderCarriesStoredVersion ==
  wire.last # <<>> => wire.last[1].ClientVersion = wire.last[1].sessionVersion

\* P of client key C
ProvisionalKey(C) == xor(xor(keychain.applicationKey, keychain.baseKey), C)

\* the key a successful exchange with client key C ends with
FinalKey(C, body) == xor(C, Base64Decode(body.dummy_token))

\* C21: the handshake request of a Key Exchange is signed with the
\* provisional key of the exchange's client key; a call started after a
\* Key Exchange has succeeded (authToken is set) and not using the special
\* key is signed with the final key of a successful exchange, never with a
\* provisional key, and its send carries the stored authToken.
C21_SignedWithExchangedKey ==
  [][ \A p \in Slots :
        (call[p].pc = "idle" /\ call'[p].pc = "post")
        => IF call'[p].op = "auth"
           THEN /\ call'[p].signKey = ProvisionalKey(call'[p].clientKey)
                /\ wire'.last[1].signKey = call'[p].signKey
           ELSE (session.authToken # "" /\ call'[p].signKey # specialKey(keychain))
                => /\ wire'.last[1].signKey = call'[p].signKey
                   /\ call'[p].signKey \notin {ProvisionalKey(C) : C \in ClientKeys}
                   /\ call'[p].signKey
                        \in {FinalKey(C, b) : C \in ClientKeys,
                                              b \in {x \in Bodies : SuccessBody(x)}}
                   /\ wire'.last[1].Authorize.token = session.authToken ]_vars

\* no send so far carried a nonce above the stored one
NoncesSentSoFar ==
  /\ wire.prevMax <= session.nonce
  /\ wire.last # <<>> => wire.last[1].Authorize.nonce <= session.nonce

\* a step that sends increments nonce and sends the incremented value
SendCarriesFreshNonce ==
  wire' # wire =>
    /\ session'.nonce > session.nonce
    /\ wire'.last[1].Authorize.nonce = session'.nonce

\* C23: with two logical calls in flight at once, every physical send
\* carries a nonce greater than the nonce of every earlier send, so no two
\* sends carry the same nonce.
C23_ConcurrentNoncesDistinct ==
  []NoncesSentSoFar /\ [][SendCarriesFreshNonce]_vars

\* two token-carrying calls are in flight at once, each has sent more than
\* once, their sends interleaved, and their command tokens embed the same
\* commandNum
C23_Witness ==
  /\ call[1].pc = "sleep1"
  /\ call[2].pc = "post"
  /\ call[1].sends >= 2
  /\ call[2].sends >= 2
  /\ call[2].failures >= 1
  /\ call[1].pre.nonce = 0
  /\ call[2].pre.nonce = 1
  /\ carriesCommandToken(call[1].formData)
  /\ carriesCommandToken(call[2].formData)
  /\ call[1].formData.commandNum.num = call[2].formData.commandNum.num

====
